---- MODULE Spec2Model ----
(***************************************************************************)
(* Model of the research-crew notifier, execution wrapper and scheduler.   *)
(*                                                                         *)
(* Text is modelled by its line structure.  A message is the sequence of   *)
(* the lengths of its lines (what message.split('\n') returns, which       *)
(* determines the message up to the characters inside a line).  A string   *)
(* built by the code (a chunk) is a non-empty sequence of line segments    *)
(* joined by '\n'; a segment [line, from, to] is characters from..to-1 of  *)
(* input line `line`, and every empty segment is the same EmptyLine.       *)
(***************************************************************************)
EXTENDS Integers, Sequences, FiniteSets, TLC

\* ------------------------------------------------------------------------
\* Bounds of the model
\* ------------------------------------------------------------------------

\* Largest number of lines of a message given to _split_message.
MaxLines == 3

\* Largest value of time.time() (the clock starts at 0).
MaxClock == 3

\* Largest number of firings of the scheduler's trigger.
MaxTicks == 3

\* Largest number of lines of a message made of short lines only.
MaxPackLines == 5

\* Largest number of command-line arguments after the program name.
MaxArgs == 2

\* ------------------------------------------------------------------------
\* Program constants
\* ------------------------------------------------------------------------

\* TelegramNotifier.MAX_MESSAGE_LENGTH
MAX_MESSAGE_LENGTH == 4096

\* The headroom subtracted from the limit when a long line is hard-split.
HARD_SPLIT_HEADROOM == 100

\* Lengths of the lines the messages are built from: blank lines, short
\* lines, lines around half the limit, around the hard-split piece size,
\* around the limit, and around twice the piece size.
LineLens == {0, 1, 2000, 2095, 2096, 3996, 4095, 4096, 4097, 7992, 7993}

Messages == UNION {[1..n -> LineLens] : n \in 1..MaxLines}

\* ------------------------------------------------------------------------
\* Strings
\* ------------------------------------------------------------------------

EmptyLine == [line |-> 0, from |-> 0, to |-> 0]

\* The empty string "".
EmptyStr == <<EmptyLine>>

\* line[a:b] of input line i whose length is len (Python slice semantics).
Slice(i, len, a, b) ==
    LET hi == IF b > len THEN len ELSE b
    IN  IF a >= hi THEN EmptyLine ELSE [line |-> i, from |-> a, to |-> hi]

\* The whole input line i as a string.
LineStr(lines, i) == <<Slice(i, lines[i], 0, lines[i])>>

RECURSIVE SegSum(_)
SegSum(s) == IF s = <<>> THEN 0
             ELSE (Head(s).to - Head(s).from) + SegSum(Tail(s))

\* len(s) of a string: its characters plus one '\n' between segments.
StrLen(s) == SegSum(s) + Len(s) - 1

\* The message as one string, and len(message).
MsgStr(lines) == [i \in 1..Len(lines) |-> Slice(i, lines[i], 0, lines[i])]

MsgLen(lines) == StrLen(MsgStr(lines))

\* Python truthiness of a str: `if current_chunk`.
Truthy(s) == s # EmptyStr

\* current_chunk + ('\n' if current_chunk else '') + line
JoinLine(cur, lineStr) == IF Truthy(cur) THEN cur \o lineStr ELSE lineStr

\* ------------------------------------------------------------------------
\* TelegramNotifier._split_message
\* ------------------------------------------------------------------------

\* len(line) > MAX_MESSAGE_LENGTH: the line must be hard-split.
LineTooLong(len) == len > MAX_MESSAGE_LENGTH

\* Mutant: the '\n' joiner is left out of the length test.
ExceedsLimit_NoJoiner(cur, len) == StrLen(cur) + len > MAX_MESSAGE_LENGTH

\* len(current_chunk) + len(line) + 1 > MAX_MESSAGE_LENGTH
ExceedsLimit(cur, len) == StrLen(cur) + len + 1 > MAX_MESSAGE_LENGTH

\* Mutant: a long line is cut into pieces of the full limit.
PieceSize_NoHeadroom == MAX_MESSAGE_LENGTH

\* The step of range(0, len(line), MAX_MESSAGE_LENGTH - 100).
PieceSize == MAX_MESSAGE_LENGTH - HARD_SPLIT_HEADROOM

\* [line[i:i + PieceSize] for i in range(0, len(line), PieceSize)]
RECURSIVE HardSplit(_, _, _)
HardSplit(i, len, from) ==
    IF from >= len THEN <<>>
    ELSE <<<<Slice(i, len, from, from + PieceSize)>>>>
         \o HardSplit(i, len, from + PieceSize)

\* `if current_chunk: chunks.append(current_chunk)`
Flush(chunks, cur) == IF Truthy(cur) THEN Append(chunks, cur) ELSE chunks

\* The body of `for line in lines`, from line i on, then the final flush.
RECURSIVE SplitLoop(_, _, _, _)
SplitLoop(lines, i, chunks, cur) ==
    IF i > Len(lines) THEN Flush(chunks, cur)
    ELSE IF LineTooLong(lines[i])
         THEN SplitLoop(lines, i + 1,
                        Flush(chunks, cur) \o HardSplit(i, lines[i], 0),
                        EmptyStr)
    ELSE IF ExceedsLimit(cur, lines[i])
         THEN SplitLoop(lines, i + 1, Append(chunks, cur), LineStr(lines, i))
    ELSE SplitLoop(lines, i + 1, chunks, JoinLine(cur, LineStr(lines, i)))

_split_message(lines) ==
    IF MsgLen(lines) <= MAX_MESSAGE_LENGTH THEN <<MsgStr(lines)>>
    ELSE SplitLoop(lines, 1, <<>>, EmptyStr)

\* ------------------------------------------------------------------------
\* TelegramNotifier.send_message
\* ------------------------------------------------------------------------

\* Line lengths of the messages given to send_message.
SendLineLens == {1, 2096, 4097}

SendMessages == UNION {[1..n -> SendLineLens] : n \in 1..MaxLines}

\* What one `await self.bot.send_message(...)` can do: return, raise a
\* TelegramError or raise another Exception; the error text may contain
\* "can't parse".
Accepted == [raised |-> "none", cant_parse |-> FALSE]

Outcomes == {Accepted}
            \cup [raised : {"TelegramError", "Exception"}, cant_parse : BOOLEAN]

\* The frame of a send_message call: the chunks, the index of the chunk at
\* hand (1-based), the await it is suspended at and its return value.
\*   "send"  awaiting bot.send_message(chunk, parse_mode=parse_mode)
\*   "sleep" awaiting asyncio.sleep(1)
\*   "retry" awaiting bot.send_message(chunk, parse_mode=None)
NoSend == [chunks |-> <<>>, i |-> 0, pc |-> "idle", ret |-> "None"]

\* Entering send_message: split, then issue the first transport call; an
\* empty chunk list skips the loop and returns True.
SendEnter(lines) ==
    LET cs == _split_message(lines)
    IN  IF cs = <<>>
        THEN [chunks |-> cs, i |-> 0, pc |-> "returned", ret |-> "True"]
        ELSE [chunks |-> cs, i |-> 1, pc |-> "send", ret |-> "None"]

\* The next iteration of `for i, chunk in enumerate(chunks)`, or the
\* `return True` after the loop.
NextChunk(s) ==
    IF s.i < Len(s.chunks)
    THEN [s EXCEPT !.i = s.i + 1, !.pc = "send"]
    ELSE [s EXCEPT !.pc = "returned", !.ret = "True"]

\* `except TelegramError as e`
InnerCatches(o) == o.raised = "TelegramError"

\* Mutant: every TelegramError is taken for a markup parse failure.
IsParseFailure_Always(o) == TRUE

\* `"can't parse" in str(e).lower()`
IsParseFailure(o) == o.cant_parse

\* Mutant: the outer handler catches TelegramError only.
OuterCatches_TelegramOnly(o) == o.raised = "TelegramError"

\* `except Exception as e` around the whole body
OuterCatches(o) == o.raised \in {"TelegramError", "Exception"}

\* An exception leaving the loop: logged and turned into `return False`.
Propagate(s, o) ==
    IF OuterCatches(o)
    THEN [s EXCEPT !.pc = "returned", !.ret = "False"]
    ELSE [s EXCEPT !.pc = "raised"]

\* `if i < len(chunks) - 1: await asyncio.sleep(1)` after an accepted send.
PauseOrNext(s) ==
    IF s.i < Len(s.chunks) THEN [s EXCEPT !.pc = "sleep"] ELSE NextChunk(s)

\* The first transport call for chunk i has ended with outcome o.
AfterSend(s, o) ==
    IF o.raised = "none" THEN PauseOrNext(s)
    ELSE IF InnerCatches(o) /\ IsParseFailure(o)
         THEN [s EXCEPT !.pc = "retry"]
    ELSE Propagate(s, o)

\* asyncio.sleep(1) has elapsed.
AfterSleep(s) == NextChunk(s)

\* Mutant: a plain-text retry that fails to parse is retried again.
AfterRetry_Again(s, o) ==
    IF o.raised = "none" THEN NextChunk(s)
    ELSE IF InnerCatches(o) /\ IsParseFailure(o) THEN s
    ELSE Propagate(s, o)

\* The plain-text retry for chunk i has ended with outcome o; it runs in
\* the except block, so no pause follows it and any failure leaves the loop.
AfterRetry(s, o) ==
    IF o.raised = "none" THEN NextChunk(s) ELSE Propagate(s, o)

\* The history of a send_message call: calls issued, their outcomes, pauses.
CallEv(i, mode) ==
    [kind |-> "call", chunk |-> i, parse_mode |-> mode, outcome |-> Accepted]
ReplyEv(i, mode, o) ==
    [kind |-> "reply", chunk |-> i, parse_mode |-> mode, outcome |-> o]
SleepEv(i) ==
    [kind |-> "sleep", chunk |-> i, parse_mode |-> "-", outcome |-> Accepted]

\* What frame s has just issued and now awaits.
Issued(s) ==
    IF s.pc = "send" THEN <<CallEv(s.i, "Markdown")>>
    ELSE IF s.pc = "retry" THEN <<CallEv(s.i, "None")>>
    ELSE IF s.pc = "sleep" THEN <<SleepEv(s.i)>>
    ELSE <<>>

\* ------------------------------------------------------------------------
\* MentalHealthResearchCrew.execute / execute_async and CrewExecutionResult
\* ------------------------------------------------------------------------

\* Reports the crew can produce (str(result)), as line lengths: a one-line
\* report and a report that is one over-long line.
Reports == {<<1>>, <<4097>>}

\* str(e) of the exceptions the crew kickoff can raise.
ExcMessages == {"quota exceeded", "timeout"}

\* CrewExecutionResult field defaults: report = "", error = None,
\* execution_time_seconds = 0.0.
DefaultReport == <<0>>

DefaultError == <<>>

DefaultSeconds == 0

\* The constructor with every field the code passes or defaults.
CrewExecutionResult(id, status, report, error, secs) ==
    [execution_id |-> id, status |-> status, report |-> report,
     error |-> error, execution_time_seconds |-> secs]

\* What the crew kickoff did, kept for reference next to the frame.
NoEngine == [raised |-> FALSE, report |-> DefaultReport, message |-> "", at |-> 0]

\* The frame of an execute / execute_async call.
NoCrew == [variant |-> "none", pc |-> "idle", execution_id |-> 0,
           start_time |-> 0, engine |-> NoEngine,
           result |-> CrewExecutionResult(0, "none", DefaultReport,
                                          DefaultError, DefaultSeconds)]

\* f"Crew execution failed: {str(e)}" / f"Async crew execution failed: ..."
ErrorText(variant, msg) ==
    <<IF variant = "execute" THEN "Crew execution failed: "
                             ELSE "Async crew execution failed: ", msg>>

\* execution_id and start_time are taken, then the kickoff is started.
CrewEnter(variant, now) ==
    [NoCrew EXCEPT !.variant = variant, !.pc = "running",
                   !.execution_id = now, !.start_time = now]

\* The kickoff returned: the try body builds the success result.
OnKickoffReturn(f, report, now) ==
    [f EXCEPT !.pc = "returned",
              !.engine = [raised |-> FALSE, report |-> report,
                          message |-> "", at |-> now],
              !.result = CrewExecutionResult(f.execution_id, "success", report,
                                             DefaultError, now - f.start_time)]

\* Mutant: the failure result is built without execution_time_seconds.
OnKickoffRaise_NoTime(f, msg, now) ==
    [f EXCEPT !.pc = "returned",
              !.engine = [raised |-> TRUE, report |-> DefaultReport,
                          message |-> msg, at |-> now],
              !.result = CrewExecutionResult(f.execution_id, "failure",
                                             DefaultReport,
                                             ErrorText(f.variant, msg),
                                             DefaultSeconds)]

\* The kickoff raised: `except Exception` builds the failure result.
OnKickoffRaise(f, msg, now) ==
    [f EXCEPT !.pc = "returned",
              !.engine = [raised |-> TRUE, report |-> DefaultReport,
                          message |-> msg, at |-> now],
              !.result = CrewExecutionResult(f.execution_id, "failure",
                                             DefaultReport,
                                             ErrorText(f.variant, msg),
                                             now - f.start_time)]

\* ------------------------------------------------------------------------
\* TelegramNotifier.send_report / send_error
\* ------------------------------------------------------------------------

\* The header of send_report: title, execution time, generation time and
\* separator lines, closed by "\n\n" (the lengths of the two middle lines
\* depend on the numbers printed; typical values are used).
HeaderLines == <<37, 24, 25, 20, 0>>

\* full_message = header + report
ReportMessage(report) == HeaderLines \o report

\* The text send_error builds: title, blank, "An error occurred during
\* execution:", blank, and the closing fence.
ErrorNotice == <<24, 0, 35, 0, 6>>

\* The pieces of text send_report concatenates: the header and the report.
SendReportText == <<"header", "report">>

\* The pieces of text send_error(error_message) concatenates: the three
\* literals of its message expression (the last one is six backquotes),
\* none of which interpolates the argument.
SendErrorText(error_message) ==
    <<"*Research Crew Error*\n\n",
      "An error occurred during execution:\n\n",
      "(six backquotes)">>

\* `result.error or "Unknown error"`
ErrorArgument(result) ==
    IF result.error = DefaultError THEN <<"Unknown error">> ELSE result.error

\* f"Scheduler execution error: {str(e)}"
HandlerErrorText == <<"Scheduler execution error: ", "str(e)">>

\* ------------------------------------------------------------------------
\* ResearchScheduler
\* ------------------------------------------------------------------------

\* add_job is called without max_instances, so the job runs with the
\* scheduling library's default of one concurrent instance.
max_instances == 1

\* Mutant: a due run is submitted whatever is still running.
CanSubmit_NoLimit(running) == TRUE

\* The executor's test when the trigger is due: a run is submitted only
\* while fewer than max_instances instances of the job are running.
CanSubmit(running) == running < max_instances

\* The frame of an execute_research invocation.
\*   "execute_async" awaiting self.crew.execute_async()
\*   "notify"        awaiting send_report / send_error
\*   "done"          returned;  "raised"  left by an exception
\* arg is the error_message given to send_error and text the pieces of the
\* message given to send_message.
JobStart(now) ==
    [pc |-> "execute_async", crew |-> CrewEnter("execute_async", now),
     handler |-> FALSE, notice |-> "none", send |-> NoSend,
     arg |-> <<>>, text |-> <<>>]

\* send_report / send_error call send_message with the text they built.
Notify(j, kind, lines) ==
    [j EXCEPT !.pc = "notify", !.notice = kind, !.send = SendEnter(lines)]

\* `if result.status == "success": send_report(...) else: send_error(...)`
AfterExecuteAsync(j) ==
    IF j.crew.result.status = "success"
    THEN Notify([j EXCEPT !.text = SendReportText],
                "report", ReportMessage(j.crew.result.report))
    ELSE Notify([j EXCEPT !.arg = ErrorArgument(j.crew.result),
                          !.text = SendErrorText(ErrorArgument(j.crew.result))],
                "error", ErrorNotice)

\* What follows when the awaited send_message call has ended: a returned
\* call ends the invocation; an exception in the try body enters
\* `except Exception` and calls send_error; an exception there leaves
\* execute_research.
RECURSIVE Settle(_)
Settle(j) ==
    IF j.pc # "notify" THEN j
    ELSE IF j.send.pc = "returned" THEN [j EXCEPT !.pc = "done"]
    ELSE IF j.send.pc = "raised"
         THEN IF j.handler THEN [j EXCEPT !.pc = "raised"]
              ELSE Settle(Notify([j EXCEPT !.handler = TRUE,
                                           !.arg = HandlerErrorText,
                                           !.text = SendErrorText(HandlerErrorText)],
                                 "error", ErrorNotice))
    ELSE j

\* execute_async ends (it always returns a result) and the notification
\* is started.
JobKickoffReturn(j, report, now) ==
    Settle(AfterExecuteAsync(
               [j EXCEPT !.crew = OnKickoffReturn(j.crew, report, now)]))

JobKickoffRaise(j, msg, now) ==
    Settle(AfterExecuteAsync(
               [j EXCEPT !.crew = OnKickoffRaise(j.crew, msg, now)]))

\* A step of the send_message call the invocation awaits.
JobAfterSend(j, o) == Settle([j EXCEPT !.send = AfterSend(j.send, o)])

JobAfterSleep(j) == Settle([j EXCEPT !.send = AfterSleep(j.send)])

JobAfterRetry(j, o) == Settle([j EXCEPT !.send = AfterRetry(j.send, o)])

\* The scheduler: configuration, the trigger's firings and what became of
\* the runs.
NoSched(enabled) ==
    [enabled |-> enabled, started |-> FALSE, ticks |-> 0, skipped |-> 0,
     finished |-> 0, undelivered |-> 0, escaped |-> 0]

\* The running invocations after invocation k made a step to frame j: an
\* invocation that ended is released by the executor.
Running(js, k, j) ==
    IF j.pc \in {"done", "raised"}
    THEN [i \in 1..(Len(js) - 1) |-> IF i < k THEN js[i] ELSE js[i + 1]]
    ELSE [js EXCEPT ![k] = j]

\* The scheduler's record of that step.
Recorded(sc, j) ==
    IF j.pc = "done"
    THEN [sc EXCEPT !.finished = sc.finished + 1,
                    !.undelivered = sc.undelivered
                                    + (IF j.send.ret = "False" THEN 1 ELSE 0)]
    ELSE IF j.pc = "raised"
    THEN [sc EXCEPT !.finished = sc.finished + 1, !.escaped = sc.escaped + 1]
    ELSE sc

\* ------------------------------------------------------------------------
\* main
\* ------------------------------------------------------------------------

\* required_vars
RequiredVars == {"GEMINI_API_KEY", "SERPER_API_KEY",
                 "TELEGRAM_BOT_TOKEN", "TELEGRAM_CHAT_ID"}

\* The state of an environment variable after load_dotenv().
EnvValues == {"unset", "empty", "set"}

\* Command-line words: the three modes, an unknown word, a mode in other
\* letter case and the empty word.
ArgWords == {"test", "once", "schedule", "bogus", "ONCE", ""}

\* sys.argv[1:]
ArgLists == UNION {[1..n -> ArgWords] : n \in 0..MaxArgs}

Modes == {"test", "once", "schedule"}

\* The process: what it was started with, where main() is, the mode it
\* dispatched to, whether usage was printed and the exit status (-1 while
\* it runs).
NewProc(env, argv) ==
    [env |-> env, argv |-> argv, pc |-> "start", mode |-> "none",
     usage |-> FALSE, exit |-> -1]

NoProc == NewProc([v \in RequiredVars |-> "set"], <<>>)

\* Mutant: TELEGRAM_CHAT_ID is left out of the required variables.
MissingVars_NoChatId(env) ==
    {v \in RequiredVars \ {"TELEGRAM_CHAT_ID"} : env[v] # "set"}

\* [var for var in required_vars if not os.getenv(var)]
MissingVars(env) == {v \in RequiredVars : env[v] # "set"}

\* sys.argv[1] if len(sys.argv) > 1 else "once"
ModeArg(argv) == IF Len(argv) > 0 THEN argv[1] ELSE "once"

\* `if missing_vars: sys.exit(1)`
CheckEnvironment(p) ==
    IF MissingVars(p.env) # {}
    THEN [p EXCEPT !.pc = "exited", !.exit = 1]
    ELSE [p EXCEPT !.pc = "dispatch"]

\* The if / elif chain on mode: a known mode is run, anything else prints
\* usage and exits with status 1.
Dispatch(p) ==
    IF ModeArg(p.argv) \in Modes
    THEN [p EXCEPT !.pc = "mode", !.mode = ModeArg(p.argv)]
    ELSE [p EXCEPT !.pc = "exited", !.usage = TRUE, !.exit = 1]

\* ------------------------------------------------------------------------
\* State
\* ------------------------------------------------------------------------

VARIABLES
    message,   \* the argument of the _split_message call under study
    chunks,    \* what that call returned
    pc,        \* "call" before the call, "done" after it
    send,      \* the frame of one send_message call
    events,    \* the transport calls and pauses of that call, in order
    clock,     \* time.time()
    crew,      \* the frame of one execute / execute_async call
    jobs,      \* the execute_research invocations the scheduler started
    sched,     \* the scheduler: configuration, firings, finished runs
    proc       \* the process started by main(): environment, argv, outcome

vars == <<message, chunks, pc, send, events, clock, crew, jobs, sched, proc>>

splitVars == <<message, chunks, pc>>
sendVars == <<send, events>>
crewVars == <<clock, crew>>
schedVars == <<jobs, sched>>
mainVars == <<proc>>

\* A component that takes no part in the specification at hand.
Idle == "idle"

\* ------------------------------------------------------------------------
\* Specification of _split_message applied to every bounded message
\* ------------------------------------------------------------------------

Init == /\ message \in Messages
        /\ chunks = <<>>
        /\ pc = "call"
        /\ send = NoSend /\ events = <<>>
        /\ clock = 0 /\ crew = NoCrew
        /\ jobs = <<>> /\ sched = NoSched(FALSE)
        /\ proc = NoProc

SplitMessage == /\ pc = "call"
                /\ chunks' = _split_message(message)
                /\ pc' = "done"
                /\ UNCHANGED <<mainVars, message, sendVars, crewVars, schedVars>>

Next == SplitMessage

Spec == Init /\ [][Next]_vars

\* ------------------------------------------------------------------------
\* Properties of _split_message
\* ------------------------------------------------------------------------

\* Consecutive chunks that are two pieces of one hard-split line.
HardSplitPair(a, b) ==
    /\ Len(a) = 1 /\ Len(b) = 1
    /\ a[1].line # 0 /\ a[1].line = b[1].line
    /\ a[1].to = b[1].from

\* The chunks put back together: pieces of one hard-split line are
\* concatenated directly, all other neighbours are joined with '\n'.
RECURSIVE Reconstruct(_)
Reconstruct(cs) ==
    IF cs = <<>> THEN EmptyStr
    ELSE IF Len(cs) = 1 THEN cs[1]
    ELSE LET rest == Reconstruct(Tail(cs))
         IN  IF HardSplitPair(cs[1], cs[2])
             THEN <<[line |-> cs[1][1].line, from |-> cs[1][1].from,
                     to |-> rest[1].to]>> \o Tail(rest)
             ELSE cs[1] \o rest

\* C1: for a non-empty message, no chunk returned by _split_message is
\* the empty string.
C1_NoEmptyChunk ==
    (pc = "done" /\ MsgLen(message) > 0)
        => \A k \in 1..Len(chunks) : StrLen(chunks[k]) >= 1

\* C2: for a message longer than the limit, joining the returned chunks
\* ('\n' at line boundaries, directly inside a hard-split line) gives
\* back the original message.
C2_Reconstructs ==
    (pc = "done" /\ MsgLen(message) > MAX_MESSAGE_LENGTH)
        => Reconstruct(chunks) = MsgStr(message)

\* C3: every chunk returned by _split_message, for any message, has
\* length at most MAX_MESSAGE_LENGTH.
C3_ChunkWithinLimit ==
    pc = "done"
        => \A k \in 1..Len(chunks) : StrLen(chunks[k]) <= MAX_MESSAGE_LENGTH

\* A call whose result holds a packed chunk of exactly the limit (two lines
\* and their joiner) followed by the pieces of a hard-split line.
C3_Witness ==
    /\ pc = "done"
    /\ MsgLen(message) > MAX_MESSAGE_LENGTH
    /\ \E k \in 1..Len(chunks) :
          Len(chunks[k]) >= 2 /\ StrLen(chunks[k]) = MAX_MESSAGE_LENGTH
    /\ \E k \in 1..Len(chunks) : chunks[k][1].from > 0

\* ------------------------------------------------------------------------
\* Specification of one send_message call against an arbitrary transport
\* ------------------------------------------------------------------------

InitSend == /\ message \in SendMessages
            /\ chunks = <<>> /\ pc = Idle
            /\ send = NoSend /\ events = <<>>
            /\ clock = 0 /\ crew = NoCrew
            /\ jobs = <<>> /\ sched = NoSched(FALSE)
        /\ proc = NoProc

\* send_message(message) is called and runs to its first await.
SendMessageCall ==
    /\ send.pc = "idle"
    /\ send' = SendEnter(message)
    /\ events' = Issued(send')
    /\ UNCHANGED <<mainVars, splitVars, crewVars, schedVars>>

\* The transport answers the first call for the chunk at hand.
TransportReplies ==
    /\ send.pc = "send"
    /\ \E o \in Outcomes :
          /\ send' = AfterSend(send, o)
          /\ events' = Append(events, ReplyEv(send.i, "Markdown", o))
                       \o Issued(send')
    /\ UNCHANGED <<mainVars, splitVars, crewVars, schedVars>>

\* The pause after an accepted non-final chunk ends.
SleepElapses ==
    /\ send.pc = "sleep"
    /\ send' = AfterSleep(send)
    /\ events' = events \o Issued(send')
    /\ UNCHANGED <<mainVars, splitVars, crewVars, schedVars>>

\* The transport answers the plain-text retry for the chunk at hand.
RetryReplies ==
    /\ send.pc = "retry"
    /\ \E o \in Outcomes :
          /\ send' = AfterRetry(send, o)
          /\ events' = Append(events, ReplyEv(send.i, "None", o))
                       \o Issued(send')
    /\ UNCHANGED <<mainVars, splitVars, crewVars, schedVars>>

NextSend == \/ SendMessageCall
            \/ TransportReplies
            \/ SleepElapses
            \/ RetryReplies

SpecSend == InitSend /\ [][NextSend]_vars

\* ------------------------------------------------------------------------
\* Properties of send_message
\* ------------------------------------------------------------------------

EventIdx == 1..Len(events)

IsCall(k) == events[k].kind = "call"

IsReply(k) == events[k].kind = "reply"

\* Event k is the first transport call issued for its chunk.
FirstCall(k) ==
    /\ IsCall(k)
    /\ \A m \in 1..(k - 1) : ~(IsCall(m) /\ events[m].chunk = events[k].chunk)

\* Reply k reports that the transport accepted the chunk.
AcceptedAt(k) == IsReply(k) /\ events[k].outcome.raised = "none"

\* Reply k is the markup parse failure of a first (formatted) call.
ParseFailureAt(k) ==
    /\ IsReply(k) /\ events[k].parse_mode = "Markdown"
    /\ events[k].outcome.raised = "TelegramError"
    /\ events[k].outcome.cant_parse

\* Reply k is a failure that ends the delivery.
FatalAt(k) ==
    IsReply(k) /\ events[k].outcome.raised # "none" /\ ~ParseFailureAt(k)

ChunkAccepted(j) == \E k \in EventIdx : AcceptedAt(k) /\ events[k].chunk = j

CallsFor(j, mode) ==
    {k \in EventIdx : IsCall(k) /\ events[k].chunk = j
                                /\ events[k].parse_mode = mode}

\* C4: between the delivery of a non-final chunk (directly or through the
\* plain-text retry) and the first transport call for the next chunk there
\* is a one-second pause, and no pause follows the final chunk.
C4_PauseBetweenChunks ==
    /\ \A k \in EventIdx :
          (FirstCall(k) /\ events[k].chunk > 1)
              => \E m \in 1..(k - 1) : events[m] = SleepEv(events[k].chunk - 1)
    /\ \A k \in EventIdx :
          events[k].kind = "sleep" => events[k].chunk < Len(send.chunks)

\* C5: a markup parse failure of the call for chunk i is followed by exactly
\* one plain-text call for the same chunk; a plain-text call is made for no
\* other reason; when it is accepted the next call is the formatted call
\* for chunk i+1; and no chunk gets more than two transport calls.
C5_ParseFailureRetriesSameChunk ==
    /\ \A k \in EventIdx :
          ParseFailureAt(k)
              => /\ k < Len(events)
                 /\ events[k + 1] = CallEv(events[k].chunk, "None")
    /\ \A k \in EventIdx :
          (IsCall(k) /\ events[k].parse_mode = "None")
              => /\ k > 1
                 /\ ParseFailureAt(k - 1)
                 /\ events[k - 1].chunk = events[k].chunk
    /\ \A k \in EventIdx :
          (AcceptedAt(k) /\ events[k].parse_mode = "None"
                         /\ events[k].chunk < Len(send.chunks))
              => /\ k < Len(events)
                 /\ events[k + 1] = CallEv(events[k].chunk + 1, "Markdown")
    /\ \A j \in 1..Len(send.chunks) :
          /\ Cardinality(CallsFor(j, "Markdown")) <= 1
          /\ Cardinality(CallsFor(j, "None")) <= 1

\* A chunk that failed to parse was accepted as plain text and the call for
\* the next chunk has been issued.
C5_Witness ==
    \E k \in EventIdx :
        /\ AcceptedAt(k) /\ events[k].parse_mode = "None"
        /\ k < Len(events)
        /\ events[k + 1] = CallEv(events[k].chunk + 1, "Markdown")

\* C6: chunks are sent in the order _split_message returned them, the
\* first call for chunk i+1 is issued only after chunk i was accepted, and
\* after a failure that is not a markup parse failure of a formatted call
\* (so also after a failed plain-text retry) no further call is made.
C6_InOrderAbortOnFailure ==
    /\ \A k \in EventIdx :
          FirstCall(k)
              => /\ \A m \in 1..(k - 1) :
                       IsCall(m) => events[m].chunk < events[k].chunk
                 /\ events[k].chunk > 1 =>
                       \E m \in 1..(k - 1) :
                          AcceptedAt(m) /\ events[m].chunk = events[k].chunk - 1
    /\ \A k \in EventIdx : IsCall(k) => events[k].chunk \in 1..Len(send.chunks)
    /\ \A k \in EventIdx :
          IsCall(k) => \A m \in 1..(k - 1) :
                          IsCall(m) => events[m].chunk <= events[k].chunk
    /\ \A k \in EventIdx :
          FatalAt(k) => /\ k = Len(events)
                        /\ send.pc \in {"returned", "raised"}

\* A delivery of at least three chunks whose first chunk was accepted and
\* whose second chunk failed for good: the third chunk is never sent.
C6_Witness ==
    /\ Len(send.chunks) >= 3
    /\ ChunkAccepted(1)
    /\ send.pc = "returned"
    /\ \E k \in EventIdx : FatalAt(k) /\ events[k].chunk = 2

\* C7: send_message never lets an exception escape; it returns True when
\* every chunk was accepted (directly or as plain text) and False in every
\* other case.
C7_TrueIffAllAccepted ==
    /\ send.pc # "raised"
    /\ send.pc = "returned" =>
          /\ send.ret \in {"True", "False"}
          /\ send.ret = "True"
                <=> \A j \in 1..Len(send.chunks) : ChunkAccepted(j)
    /\ \A k \in EventIdx :
          FatalAt(k) => send.pc = "returned" /\ send.ret = "False"

\* A call that returned False after its first chunk had been accepted,
\* ended by an exception that is not a TelegramError.
C7_Witness ==
    /\ send.pc = "returned" /\ send.ret = "False"
    /\ ChunkAccepted(1)
    /\ \E k \in EventIdx : FatalAt(k) /\ events[k].outcome.raised = "Exception"

\* ------------------------------------------------------------------------
\* Specification of one execute / execute_async call
\* ------------------------------------------------------------------------

InitCrew == /\ message = <<0>> /\ chunks = <<>> /\ pc = Idle
            /\ send = NoSend /\ events = <<>>
            /\ clock = 0 /\ crew = NoCrew
            /\ jobs = <<>> /\ sched = NoSched(FALSE)
        /\ proc = NoProc

\* Time passes.
Tick == /\ clock < MaxClock
        /\ clock' = clock + 1
        /\ UNCHANGED <<mainVars, splitVars, sendVars, crew, schedVars>>

\* execute() is called.
Execute == /\ crew.pc = "idle"
           /\ crew' = CrewEnter("execute", clock)
           /\ UNCHANGED <<mainVars, splitVars, sendVars, clock, schedVars>>

\* execute_async() is called.
ExecuteAsync == /\ crew.pc = "idle"
                /\ crew' = CrewEnter("execute_async", clock)
                /\ UNCHANGED <<mainVars, splitVars, sendVars, clock, schedVars>>

\* self.crew.kickoff() / kickoff_async() returns a report.
KickoffReturns ==
    /\ crew.pc = "running"
    /\ \E r \in Reports : crew' = OnKickoffReturn(crew, r, clock)
    /\ UNCHANGED <<mainVars, splitVars, sendVars, clock, schedVars>>

\* self.crew.kickoff() / kickoff_async() raises.
KickoffRaises ==
    /\ crew.pc = "running"
    /\ \E m \in ExcMessages : crew' = OnKickoffRaise(crew, m, clock)
    /\ UNCHANGED <<mainVars, splitVars, sendVars, clock, schedVars>>

NextCrew == \/ Tick
            \/ Execute
            \/ ExecuteAsync
            \/ KickoffReturns
            \/ KickoffRaises

SpecCrew == InitCrew /\ [][NextCrew]_vars

\* ------------------------------------------------------------------------
\* Properties of execute / execute_async
\* ------------------------------------------------------------------------

\* The result of a returned call reflects what the kickoff did.
ResultMatchesKickoff ==
    /\ crew.pc \in {"idle", "running", "returned"}
    /\ crew.pc = "returned" =>
          LET r == crew.result
              e == crew.engine
          IN  /\ r.status \in {"success", "failure"}
              /\ r.status = "success" <=> ~e.raised
              /\ r.status = "success" =>
                    r.report = e.report /\ r.error = DefaultError
              /\ r.status = "failure" =>
                    /\ r.report = DefaultReport
                    /\ \E i \in 1..Len(r.error) : r.error[i] = e.message
              /\ r.execution_time_seconds = e.at - crew.start_time

\* A call moves idle -> running -> returned and a returned call is final.
CrewStep ==
    /\ crew.pc = "idle" => crew'.pc \in {"idle", "running"}
    /\ crew.pc = "running" => crew'.pc \in {"running", "returned"}
    /\ crew.pc = "returned" => crew' = crew

\* C8: execute and execute_async go idle -> running -> {success, failure}
\* and always return a result record: "success" with the report exactly
\* when the kickoff returned, "failure" with an empty report and an error
\* text holding the exception's message exactly when it raised, and with
\* execution_time_seconds set to the elapsed time in both outcomes.
C8_ExecuteReturnsResult == []ResultMatchesKickoff /\ [][CrewStep]_vars

\* A call whose kickoff raised after time had passed: a failure result
\* with a non-zero execution time.
C8_Witness ==
    /\ crew.pc = "returned"
    /\ crew.engine.raised
    /\ crew.result.status = "failure"
    /\ crew.result.execution_time_seconds > 0

\* ------------------------------------------------------------------------
\* Specification of the scheduler and its execute_research invocations
\* ------------------------------------------------------------------------

InitSched == /\ message = <<0>> /\ chunks = <<>> /\ pc = Idle
             /\ send = NoSend /\ events = <<>>
             /\ clock = 0 /\ crew = NoCrew
             /\ jobs = <<>>
             /\ \E enabled \in BOOLEAN : sched = NoSched(enabled)
             /\ proc = NoProc

\* start(): a disabled scheduler registers nothing; otherwise the job is
\* added with an interval trigger whose first run is due now.
Start ==
    /\ ~sched.started
    /\ sched' = [sched EXCEPT !.started = TRUE]
    /\ UNCHANGED <<mainVars, splitVars, sendVars, crewVars, jobs>>

\* The trigger is due (at start and then every interval): the run is
\* submitted, or skipped when the job's instance limit is reached.
TimerFires ==
    /\ sched.started /\ sched.enabled
    /\ sched.ticks < MaxTicks
    /\ IF CanSubmit(Len(jobs))
       THEN /\ jobs' = Append(jobs, JobStart(clock))
            /\ sched' = [sched EXCEPT !.ticks = sched.ticks + 1]
       ELSE /\ jobs' = jobs
            /\ sched' = [sched EXCEPT !.ticks = sched.ticks + 1,
                                      !.skipped = sched.skipped + 1]
    /\ UNCHANGED <<mainVars, splitVars, sendVars, crewVars>>

\* The step of invocation k to frame j.
JobStep(k, j) ==
    /\ jobs' = Running(jobs, k, j)
    /\ sched' = Recorded(sched, j)
    /\ UNCHANGED <<mainVars, splitVars, sendVars, crewVars>>

JobKickoffReturns ==
    \E k \in 1..Len(jobs) :
       /\ jobs[k].pc = "execute_async"
       /\ \E r \in Reports : JobStep(k, JobKickoffReturn(jobs[k], r, clock))

JobKickoffRaises ==
    \E k \in 1..Len(jobs) :
       /\ jobs[k].pc = "execute_async"
       /\ \E m \in ExcMessages : JobStep(k, JobKickoffRaise(jobs[k], m, clock))

JobTransportReplies ==
    \E k \in 1..Len(jobs) :
       /\ jobs[k].pc = "notify" /\ jobs[k].send.pc = "send"
       /\ \E o \in Outcomes : JobStep(k, JobAfterSend(jobs[k], o))

JobSleepElapses ==
    \E k \in 1..Len(jobs) :
       /\ jobs[k].pc = "notify" /\ jobs[k].send.pc = "sleep"
       /\ JobStep(k, JobAfterSleep(jobs[k]))

JobRetryReplies ==
    \E k \in 1..Len(jobs) :
       /\ jobs[k].pc = "notify" /\ jobs[k].send.pc = "retry"
       /\ \E o \in Outcomes : JobStep(k, JobAfterRetry(jobs[k], o))

NextSched == \/ Start
             \/ TimerFires
             \/ JobKickoffReturns
             \/ JobKickoffRaises
             \/ JobTransportReplies
             \/ JobSleepElapses
             \/ JobRetryReplies

SpecSched == InitSched /\ [][NextSched]_vars

\* ------------------------------------------------------------------------
\* Properties of the scheduler
\* ------------------------------------------------------------------------

\* C9: execute_research never lets an exception reach the scheduler: no
\* invocation ends by an exception, a failure result is followed by the
\* error notification, a failed delivery ends the invocation normally, and
\* every firing of the trigger is accounted for, so that the trigger can
\* fire again after any run.
C9_NoExceptionReachesScheduler ==
    /\ sched.escaped = 0
    /\ \A k \in 1..Len(jobs) :
          /\ jobs[k].pc \in {"execute_async", "notify"}
          /\ jobs[k].pc = "notify" =>
                /\ jobs[k].send.pc \in {"send", "sleep", "retry"}
                /\ jobs[k].crew.result.status = "failure"
                      => jobs[k].notice = "error"
                /\ jobs[k].crew.result.status = "success"
                      => jobs[k].notice = "report"
    /\ sched.ticks = sched.skipped + sched.finished + Len(jobs)
    /\ (sched.started /\ sched.enabled /\ sched.ticks < MaxTicks)
          => ENABLED TimerFires

\* A run whose delivery failed has ended, and a later firing has started a
\* run whose crew failed and which is sending the error notification.
C9_Witness ==
    /\ sched.undelivered >= 1
    /\ sched.escaped = 0
    /\ Len(jobs) = 1
    /\ jobs[1].pc = "notify" /\ jobs[1].notice = "error"
    /\ jobs[1].crew.result.status = "failure"

PackLineLens == {0, 1, 1021, 1024}

PackMessages == UNION {[1..n -> PackLineLens] : n \in 1..MaxPackLines}

InitPack == /\ message \in PackMessages
            /\ chunks = <<>>
            /\ pc = "call"
            /\ send = NoSend /\ events = <<>>
            /\ clock = 0 /\ crew = NoCrew
            /\ jobs = <<>> /\ sched = NoSched(FALSE)
        /\ proc = NoProc

SpecPack == InitPack /\ [][Next]_vars

\* ------------------------------------------------------------------------
\* Properties of greedy packing
\* ------------------------------------------------------------------------

\* A line far shorter than the limit: at most a quarter of it.
FarShorter(len) == 4 * len <= MAX_MESSAGE_LENGTH

\* The '\n'-joined length of lines i..j.
RECURSIVE GroupLen(_, _, _)
GroupLen(lines, i, j) ==
    IF i > j THEN -1 ELSE lines[j] + 1 + GroupLen(lines, i, j - 1)

SetMin(S) == CHOOSE x \in S : \A y \in S : x <= y

\* The least number of consecutive groups of lines i..Len(lines) whose
\* joined lengths are all within the limit.
RECURSIVE MinGroups(_, _)
MinGroups(lines, i) ==
    IF i > Len(lines) THEN 0
    ELSE 1 + SetMin({MinGroups(lines, j + 1) :
                        j \in {j \in i..Len(lines) :
                                 GroupLen(lines, i, j) <= MAX_MESSAGE_LENGTH}})

\* The segments of all chunks, in order.
RECURSIVE Flatten(_)
Flatten(cs) == IF cs = <<>> THEN <<>> ELSE Head(cs) \o Flatten(Tail(cs))

\* C11: for a message longer than the limit whose lines are all far
\* shorter than the limit, the number of chunks is the least number of
\* consecutive groups of lines that fit the limit, and the chunks hold the
\* lines in input order.
C11_MinimumChunksInOrder ==
    (/\ pc = "done"
     /\ MsgLen(message) > MAX_MESSAGE_LENGTH
     /\ \A i \in 1..Len(message) : FarShorter(message[i]))
        => /\ Len(chunks) = MinGroups(message, 1)
           /\ Flatten(chunks) = MsgStr(message)

\* ------------------------------------------------------------------------
\* Properties of the hard split
\* ------------------------------------------------------------------------

CeilDiv(a, b) == (a + b - 1) \div b

SmallerOf(a, b) == IF a < b THEN a ELSE b

\* Chunk c holds characters of input line i.
HasLine(c, i) == \E q \in 1..Len(c) : c[q].line = i

\* Line i of the message, of length L > limit, came out as n pieces that
\* are the chunks f..f+n-1: piece q holds characters q*P .. (q+1)*P - 1 of
\* the line and nothing else, no other chunk holds any of the line, the
\* earlier lines that have text are in chunks before f, and the chunks
\* after the pieces hold later lines only.
HardSplitAt(i, f) ==
    LET L == message[i]
        P == MAX_MESSAGE_LENGTH - HARD_SPLIT_HEADROOM
        n == CeilDiv(L, P)
    IN  /\ f + n - 1 <= Len(chunks)
        /\ \A q \in 0..(n - 1) :
              chunks[f + q] = <<[line |-> i, from |-> q * P,
                                 to |-> SmallerOf((q + 1) * P, L)]>>
        /\ {k \in 1..Len(chunks) : HasLine(chunks[k], i)} = f..(f + n - 1)
        /\ \A k \in 1..(f - 1) :
              \A q \in 1..Len(chunks[k]) : chunks[k][q].line < i
        /\ \A j \in 1..(i - 1) :
              message[j] > 0 => \E k \in 1..(f - 1) : HasLine(chunks[k], j)
        /\ \A k \in (f + n)..Len(chunks) :
              \A q \in 1..Len(chunks[k]) : chunks[k][q].line \notin 1..i

\* C12: a line of length L > limit yields exactly ceil(L / (limit - 100))
\* chunks, consecutive slices of the line of at most limit - 100
\* characters, each a chunk of its own, after the chunk that was being
\* accumulated before the line.
C12_HardSplitPieces ==
    pc = "done" =>
        \A i \in 1..Len(message) :
            message[i] > MAX_MESSAGE_LENGTH
                => \E f \in 1..Len(chunks) : HardSplitAt(i, f)

\* A line of twice the piece size plus one, between two short lines, came
\* out as three pieces between the chunks of its neighbours.
C12_Witness ==
    /\ pc = "done"
    /\ Len(message) = 3
    /\ message[1] = 1 /\ message[2] = 7993 /\ message[3] = 1
    /\ Len(chunks) = 5
    /\ HardSplitAt(2, 2)

\* ------------------------------------------------------------------------
\* Specification of main()
\* ------------------------------------------------------------------------

InitMain == /\ message = <<0>> /\ chunks = <<>> /\ pc = Idle
            /\ send = NoSend /\ events = <<>>
            /\ clock = 0 /\ crew = NoCrew
            /\ jobs = <<>> /\ sched = NoSched(FALSE)
            /\ \E env \in [RequiredVars -> EnvValues], argv \in ArgLists :
                  proc = NewProc(env, argv)

\* main() loads the environment, sets up logging and checks the required
\* variables.
MainChecksEnvironment ==
    /\ proc.pc = "start"
    /\ proc' = CheckEnvironment(proc)
    /\ UNCHANGED <<splitVars, sendVars, crewVars, schedVars>>

\* main() reads the mode and dispatches on it.
MainDispatches ==
    /\ proc.pc = "dispatch"
    /\ proc' = Dispatch(proc)
    /\ UNCHANGED <<splitVars, sendVars, crewVars, schedVars>>

\* asyncio.run(...) of the mode returns and main() ends.
ModeReturns ==
    /\ proc.pc = "mode"
    /\ proc' = [proc EXCEPT !.pc = "exited", !.exit = 0]
    /\ UNCHANGED <<splitVars, sendVars, crewVars, schedVars>>

\* The mode raises (run_once re-raises what it catches) and the
\* interpreter exits with status 1.
ModeRaises ==
    /\ proc.pc = "mode"
    /\ proc' = [proc EXCEPT !.pc = "exited", !.exit = 1]
    /\ UNCHANGED <<splitVars, sendVars, crewVars, schedVars>>

NextMain == \/ MainChecksEnvironment
            \/ MainDispatches
            \/ ModeReturns
            \/ ModeRaises

SpecMain == InitMain /\ [][NextMain]_vars

\* ------------------------------------------------------------------------
\* Properties of main()
\* ------------------------------------------------------------------------

\* C13: with a required variable absent the process exits non-zero before
\* any mode is dispatched; otherwise no argument runs 'once', a first
\* argument 'test', 'once' or 'schedule' runs that mode, and any other
\* first argument prints usage and exits non-zero without running a mode.
C13_MainDispatch ==
    /\ ((\E v \in RequiredVars : proc.env[v] = "unset") /\ proc.pc # "start")
          => /\ proc.pc = "exited" /\ proc.exit = 1
             /\ proc.mode = "none" /\ ~proc.usage
    /\ ((\A v \in RequiredVars : proc.env[v] = "set")
            /\ proc.pc \in {"mode", "exited"})
          => /\ Len(proc.argv) = 0 => proc.mode = "once" /\ ~proc.usage
             /\ (Len(proc.argv) > 0 /\ proc.argv[1] \in Modes)
                   => proc.mode = proc.argv[1] /\ ~proc.usage
             /\ (Len(proc.argv) > 0 /\ proc.argv[1] \notin Modes)
                   => /\ proc.mode = "none" /\ proc.usage
                      /\ proc.pc = "exited" /\ proc.exit = 1

\* A process started with every variable set and no argument is running
\* the 'once' mode.
C13_Witness ==
    /\ \A v \in RequiredVars : proc.env[v] = "set"
    /\ proc.argv = <<>>
    /\ proc.pc = "mode" /\ proc.mode = "once"

\* ------------------------------------------------------------------------
\* Properties of the error notification
\* ------------------------------------------------------------------------

\* The pieces of part occur in text, next to each other and in order.
ContainsText(text, part) ==
    \E o \in 0..(Len(text) - Len(part)) :
        \A i \in 1..Len(part) : text[o + i] = part[i]

\* C14: when an execution ends in a failure result, the message that
\* send_error passes to send_message contains the error_message it was
\* given.
C14_ErrorNoticeCarriesError ==
    \A k \in 1..Len(jobs) :
        (jobs[k].pc = "notify" /\ jobs[k].notice = "error")
            => /\ Len(jobs[k].arg) > 0
               /\ ContainsText(jobs[k].text, jobs[k].arg)
====
